---- MODULE Spec2Model ----
(***************************************************************************)
(* The reservations back end (backend/server.js, PostgreSQL variant with   *)
(* service timeslots) as a state machine.  Every HTTP handler is a process *)
(* whose steps are its store queries: the synchronous code that follows an *)
(* await runs together with the next query, so handlers interleave exactly *)
(* at their awaits.                                                        *)
(*                                                                         *)
(* Encodings.  A calendar date "YYYY-MM-DD" is its day number since        *)
(* 1970-01-01 (a Thursday).  An instant is a number of ticks since the     *)
(* epoch, TicksPerDay ticks to a day.  A TIME column value is a number of  *)
(* seconds since midnight; the text "HH:MM" is a number of minutes.        *)
(***************************************************************************)
EXTENDS Integers, Sequences, FiniteSets, TLC

\* ------------------------------------------------------------------ bounds
NumUsers == 2
NumServices == 1
LastHour == 10
MaxDate == 2
MaxNow == 3
MaxCalls == 2
MaxBookingId == 2
MaxDisabled == 1
MaxArray == 3
MaxRequests == 3
TicksPerDay == 2

\* ------------------------------------------------------- program constants
FirstHour == 9
FirstDay == 1
LastDay == 5

Users == 1..NumUsers
Calls == 1..MaxCalls
Dates == 0..MaxDate
\* The server's offset from UTC, in ticks (process environment TZ).
TimeZones == {0 - 1, 0, 1}

ServiceNames == <<"Haircut", "Manicure", "Massage">>

\* ----------------------------------------------------------- request data
\* A request field is absent (undefined, "", 0: falsy in JavaScript) or
\* carries a value of some textual shape.
Absent == [kind |-> "absent", val |-> 0]
IntText(n) == [kind |-> "int", val |-> n]
DateText(d) == [kind |-> "ymd", val |-> d]
Garbage == [kind |-> "garbage", val |-> 0]
TimeText(m) == [kind |-> "hhmm", val |-> m]

\* "abc" is a serviceId that parseInt reads as NaN.
ServiceIdInputs == {IntText(n) : n \in 1..(NumServices + 1)} \cup {Garbage, Absent}
DateInputs == {DateText(d) : d \in Dates} \cup {Garbage, Absent}
\* "11:30" is the time no seeded template starts at.
TimeInputs == {TimeText(h * 60) : h \in FirstHour..LastHour}
                \cup {TimeText(LastHour * 60 + 90), Absent}

Falsy(f) == f.kind = "absent"

\* parseInt(serviceId); the result is NaN when the text starts with no digit.
parseInt(f) == f.val
parseIntIsNaN(f) == f.kind # "int"

\* new Date(date).getTime(): a date-only text is read as midnight UTC.
isNaN(f) == f.kind # "ymd"
getTime(f) == f.val * TicksPerDay

\* PostgreSQL reading the text parameters into DATE and TIME values.
PgDate(f) == f.val
PgTime(f) == f.val * 60

\* ------------------------------------------------------------------ state
VARIABLES
    now,                \* the server clock, ticks since the epoch (UTC)
    tz,                 \* the server's UTC offset in ticks
    services,           \* table services
    service_timeslots,  \* table service_timeslots
    bookings,           \* table bookings
    nextId,             \* bookings_id_seq
    pc,                 \* each handler's position
    frame,              \* each handler's local constants
    response,           \* what each handler sent with res.status().json()
    outbox,             \* the notifications handed to the email service
    schema,             \* the tables and constraints the database has
    mail,               \* each sendEmail call: its position and what it logged
    proc,               \* the server process: migrating, listening or exited
    auth,               \* the Authorization header of each call's request
    memory,             \* the in-memory variant: its bookings array, last request
                        \* and last response
    form                \* the BookingForm: its state and its timeslot requests

vars == <<now, tz, services, service_timeslots, bookings, nextId, pc, frame, response,
          outbox, schema, mail, proc, auth, memory, form>>
store == <<services, service_timeslots, bookings, nextId>>
\* What the HTTP handlers and the migrations never touch.
side == <<mail, proc, auth, memory, form>>
\* What the email service never touches.
server == <<now, tz, services, service_timeslots, bookings, nextId, pc, frame, response,
            outbox, schema, proc, auth>>

\* The server process while runMigrations runs, after app.listen, and after
\* process.exit(code).
Migrating == [phase |-> "migrating", exit |-> ""]
Listening == [phase |-> "listening", exit |-> ""]
Exited(code) == [phase |-> "exited", exit |-> code]

\* req.headers['authorization']: missing; present without a second word;
\* "Bearer <token>" whose token jwt.verify rejects (forged, expired or
\* tampered with, whatever id its payload names); "Bearer <token>" with a
\* token signed for user id.
NoHeader == [kind |-> "absent", id |-> 0]
AuthHeaders ==
    {NoHeader, [kind |-> "notoken", id |-> 0]}
        \cup [kind : {"invalid", "verified"}, id : Users]

\* The BookingForm as mounted: useState('') for date, time and error,
\* useState([]) for timeslots, useState(false) for loadingTimeslots; no
\* request sent.
NoForm == [date |-> Absent, time |-> Absent, timeslots |-> <<>>,
           loadingTimeslots |-> FALSE, error |-> "", requests |-> {}, sent |-> 0]

NoMail == [pc |-> "idle", to |-> 0, subject |-> "", log |-> ""]

NoBooking == [id |-> 0, user_id |-> 0, service_id |-> 0, service_name |-> "",
              date |-> 0, time |-> 0, status |-> ""]

NoFrame == [userId |-> 0, serviceId |-> Absent, date |-> Absent, time |-> Absent,
            service_name |-> "", dayOfWeek |-> 0, rows |-> <<>>,
            bookingId |-> 0]

NoResponse == [status |-> 0, text |-> "", booking |-> NoBooking, slots |-> <<>>,
               list |-> <<>>, logged |-> ""]

\* The in-memory variant after start: let bookings = [].
NoRequest == [op |-> "", userId |-> 0, bookingId |-> 0]
NoMemory == [bookings |-> <<>>, request |-> NoRequest, response |-> NoResponse]

Reply(st, txt) == [NoResponse EXCEPT !.status = st, !.text = txt]

\* The tables of the database, and the UNIQUE(service_id, date, time, status)
\* constraint of table bookings.
Tables == {"users", "services", "service_timeslots", "bookings"}
BookingsUnique == "bookings_service_id_date_time_status_key"
FullSchema == Tables \cup {BookingsUnique}

\* --------------------------------------------------------------- calendar
\* Date.prototype.getDay() of the instant t: the weekday of the server's
\* local calendar day (0 = Sunday; 1970-01-01 was a Thursday).
getDay(t) == (((t + tz) \div TicksPerDay) + 4) % 7

\* The weekday of the calendar date d itself.
CalendarDay(d) == (d + 4) % 7

\* The server's current calendar day.
Today == (now + tz) \div TicksPerDay

\* bookingDate < new Date()
IsPastMutant(f) == getTime(f) + TicksPerDay < now
IsPast(f) == getTime(f) < now

\* ---------------------------------------------------------------- queries
\* The parameter NaN for an integer column: the query fails with error 22P02
\* (invalid input syntax for type integer).
InvalidInteger(f) == parseIntIsNaN(f)

\* SELECT id, name FROM services WHERE id = $1
serviceResult(id) == {s \in services : s.id = id}

\* SELECT id FROM service_timeslots WHERE service_id = $1 AND day_of_week = $2
\*   AND start_time = $3 AND is_available = true
timeslotResult(id, dow, t) ==
    {r \in service_timeslots : /\ r.service_id = id
                               /\ r.day_of_week = dow
                               /\ r.start_time = t
                               /\ r.is_available}

\* SELECT id FROM bookings WHERE service_id = $1 AND date = $2 AND time = $3
\*   AND status = 'confirmed'
existingBookingAnyDate(id, d, t) ==
    {b \in bookings : /\ b.service_id = id
                      /\ b.time = t
                      /\ b.status = "confirmed"}
existingBooking(id, d, t) ==
    {b \in bookings : /\ b.service_id = id
                      /\ b.date = d
                      /\ b.time = t
                      /\ b.status = "confirmed"}

\* UNIQUE(service_id, date, time, status) of table bookings.
UniqueViolationMutant(row) == FALSE
UniqueViolationPerUser(row) ==
    \E b \in bookings : /\ b.user_id = row.user_id
                        /\ b.service_id = row.service_id
                        /\ b.date = row.date
                        /\ b.time = row.time
                        /\ b.status = row.status
UniqueViolation(row) ==
    /\ BookingsUnique \in schema
    /\ \E b \in bookings : /\ b.service_id = row.service_id
                           /\ b.date = row.date
                           /\ b.time = row.time
                           /\ b.status = row.status

\* The seeded templates: every service, Monday to Friday, hourly slots.
SeedTimeslots ==
    {[service_id |-> s, day_of_week |-> d, start_time |-> h * 3600,
      end_time |-> (h + 1) * 3600, is_available |-> TRUE] :
        s \in 1..NumServices, d \in FirstDay..LastDay, h \in FirstHour..LastHour}

SeedServices == {[id |-> s, name |-> ServiceNames[s]] : s \in 1..NumServices}

Init ==
    /\ now = 1
    /\ tz \in TimeZones
    /\ services = SeedServices
    /\ service_timeslots = SeedTimeslots
    /\ bookings = {}
    /\ nextId = 1
    /\ pc = [p \in Calls |-> "idle"]
    /\ frame = [p \in Calls |-> NoFrame]
    /\ response = [p \in Calls |-> NoResponse]
    /\ outbox = <<>>
    /\ schema = FullSchema
    /\ mail = [p \in Calls |-> NoMail]
    /\ auth = [p \in Calls |-> NoHeader]
    /\ memory = NoMemory
    /\ form = NoForm
    /\ proc = Listening

\* One step of a handler: where it goes next, with what locals, and what it
\* has sent (NoResponse while it is still running).  The request and the
\* locals stay in scope until the response has been read.
Continue(label, f) == [next |-> label, frame |-> f, response |-> NoResponse]
Respond(f, r) == [next |-> "done", frame |-> f, response |-> r]

Advance(p, s) ==
    /\ pc' = [pc EXCEPT ![p] = s.next]
    /\ frame' = [frame EXCEPT ![p] = s.frame]
    /\ response' = [response EXCEPT ![p] = s.response]

\* node-postgres hands a DATE column to JavaScript as local midnight, and
\* toISOString().split('T')[0] prints the UTC calendar day of that instant.
toISODate(d) == (d * TicksPerDay - tz) \div TicksPerDay

\* ------------------------------------------------- POST /api/bookings
\* catch (err) of the handler.
postBookings_catchMutant(code) == [Reply(500, "Server error") EXCEPT !.logged = code]
postBookings_catch(code) ==
    IF code = "23505"
    THEN [Reply(409, "This time slot is already booked. Please select another time.") EXCEPT !.logged = code]
    ELSE [Reply(500, "Server error") EXCEPT !.logged = code]

\* Required fields, then the service lookup.
postBookings_service(f) ==
    IF Falsy(f.serviceId) \/ Falsy(f.date) \/ Falsy(f.time)
    THEN Respond(f, Reply(400, "Missing required fields"))
    ELSE IF InvalidInteger(f.serviceId)
    THEN Respond(f, postBookings_catch("22P02"))
    ELSE LET rows == serviceResult(parseInt(f.serviceId)) IN
         IF rows = {}
         THEN Respond(f, Reply(404, "Service not found"))
         ELSE Continue("cb_timeslot",
                       [f EXCEPT !.service_name = (CHOOSE s \in rows : TRUE).name])

\* Date validation, past-date check, then the template lookup.
postBookings_timeslot(f) ==
    IF isNaN(f.date)
    THEN Respond(f, Reply(400, "Invalid date format"))
    ELSE IF IsPast(f.date)
    THEN Respond(f, Reply(400, "Cannot book past dates"))
    ELSE LET dayOfWeek == getDay(getTime(f.date)) IN
         IF timeslotResult(parseInt(f.serviceId), dayOfWeek, PgTime(f.time)) = {}
         THEN Respond(f, Reply(400, "This time slot is not available for this service on the selected day"))
         ELSE Continue("cb_existing", [f EXCEPT !.dayOfWeek = dayOfWeek])

\* The pre-check for a confirmed booking of the slot.
postBookings_existing(f) ==
    IF existingBooking(parseInt(f.serviceId), PgDate(f.date), PgTime(f.time)) # {}
    THEN Respond(f, Reply(409, "This time slot is already booked. Please select another time."))
    ELSE Continue("cb_insert", f)

\* The row of INSERT INTO bookings (...) VALUES ($1, ..., 'confirmed').
NewBookingCountId(f) ==
    [id |-> Cardinality(bookings) + 1, user_id |-> f.userId,
     service_id |-> parseInt(f.serviceId), service_name |-> f.service_name,
     date |-> PgDate(f.date), time |-> PgTime(f.time), status |-> "confirmed"]
NewBookingLiveName(f) ==
    [id |-> nextId, user_id |-> f.userId, service_id |-> parseInt(f.serviceId),
     service_name |-> (CHOOSE sv \in services : sv.id = parseInt(f.serviceId)).name,
     date |-> PgDate(f.date), time |-> PgTime(f.time), status |-> "confirmed"]
NewBooking(f) ==
    [id |-> nextId, user_id |-> f.userId, service_id |-> parseInt(f.serviceId),
     service_name |-> f.service_name, date |-> PgDate(f.date),
     time |-> PgTime(f.time), status |-> "confirmed"]

\* The 201 response: the inserted row, its date printed as YYYY-MM-DD.
bookingResponse(row) ==
    [Reply(201, "Booking created successfully")
        EXCEPT !.booking = [row EXCEPT !.date = toISODate(row.date)]]

\* The INSERT and what follows it: the unique index rejects the row with
\* error 23505, which the handler catches, or the row is stored and sent.
\* The id of the row is taken from bookings_id_seq (id SERIAL) before the
\* index is checked, so a rejected row uses up an id as well.
postBookings_insertStoresRejected(f) ==
    LET row == NewBooking(f) IN
    IF UniqueViolation(row)
    THEN [response |-> postBookings_catch("23505"), bookings |-> bookings \cup {row},
          nextId |-> nextId + 1]
    ELSE [response |-> bookingResponse(row), bookings |-> bookings \cup {row},
          nextId |-> nextId + 1]
postBookings_insert(f) ==
    LET row == NewBooking(f) IN
    IF UniqueViolation(row)
    THEN [response |-> postBookings_catch("23505"), bookings |-> bookings,
          nextId |-> nextId + 1]
    ELSE [response |-> bookingResponse(row), bookings |-> bookings \cup {row},
          nextId |-> nextId + 1]

Unchanged(r) == [response |-> r, bookings |-> bookings, nextId |-> nextId]

\* The handler run from its first line to its response with no other
\* handler in between: createBooking(userId, serviceId, date, time).
createBooking(u, sid, d, t) ==
    LET s1 == postBookings_service(
                [NoFrame EXCEPT !.userId = u, !.serviceId = sid, !.date = d, !.time = t])
    IN IF s1.next = "done" THEN Unchanged(s1.response)
       ELSE LET s2 == postBookings_timeslot(s1.frame)
            IN IF s2.next = "done" THEN Unchanged(s2.response)
               ELSE LET s3 == postBookings_existing(s2.frame)
                    IN IF s3.next = "done" THEN Unchanged(s3.response)
                       ELSE postBookings_insert(s3.frame)

\* createBooking without the pre-check: the INSERT follows the template
\* lookup, and only the unique index guards the slot.
createBookingInsertOnly(u, sid, d, t) ==
    LET s1 == postBookings_service(
                [NoFrame EXCEPT !.userId = u, !.serviceId = sid, !.date = d, !.time = t])
    IN IF s1.next = "done" THEN Unchanged(s1.response)
       ELSE LET s2 == postBookings_timeslot(s1.frame)
            IN IF s2.next = "done" THEN Unchanged(s2.response)
               ELSE postBookings_insert(s2.frame)

InFlightCreates ==
    Cardinality({q \in Calls : pc[q] \in {"cb_timeslot", "cb_existing", "cb_insert"}})

CreateBooking_Begin(p, u, sid, d, t) ==
    /\ pc[p] = "idle"
    /\ nextId + InFlightCreates <= MaxBookingId
    /\ Advance(p, postBookings_service(
            [NoFrame EXCEPT !.userId = u, !.serviceId = sid, !.date = d, !.time = t]))
    /\ UNCHANGED <<side, outbox, schema, now, tz, store>>

CreateBooking_Timeslot(p) ==
    /\ pc[p] = "cb_timeslot"
    /\ Advance(p, postBookings_timeslot(frame[p]))
    /\ UNCHANGED <<side, outbox, schema, now, tz, store>>

CreateBooking_Existing(p) ==
    /\ pc[p] = "cb_existing"
    /\ Advance(p, postBookings_existing(frame[p]))
    /\ UNCHANGED <<side, outbox, schema, now, tz, store>>

CreateBooking_Insert(p) ==
    /\ pc[p] = "cb_insert"
    /\ LET r == postBookings_insert(frame[p]) IN
       /\ bookings' = r.bookings
       /\ nextId' = r.nextId
       /\ Advance(p, Respond(frame[p], r.response))
    /\ UNCHANGED <<side, outbox, schema, now, tz, services, service_timeslots>>

\* ------------------------------------------- DELETE /api/bookings/:id
deleteBooking_selectAnyOwner(f) ==
    LET rows == {b \in bookings : b.id = f.bookingId} IN
    IF rows = {}
    THEN Respond(f, Reply(404, "Booking not found"))
    ELSE Continue("del_delete", f)
deleteBooking_select(f) ==
    LET rows == {b \in bookings : b.id = f.bookingId} IN
    IF rows = {}
    THEN Respond(f, Reply(404, "Booking not found"))
    ELSE IF (CHOOSE b \in rows : TRUE).user_id # f.userId
    THEN Respond(f, Reply(403, "Unauthorized"))
    ELSE Continue("del_delete", f)

\* DELETE FROM bookings WHERE id = $1
DeleteRowsMutant(id) == bookings
DeleteRows(id) == {b \in bookings : b.id # id}

\* cancelBooking(userId, reservationId) run without interruption.
cancelBooking(u, id) ==
    LET s1 == deleteBooking_select([NoFrame EXCEPT !.userId = u, !.bookingId = id])
    IN IF s1.next = "done" THEN Unchanged(s1.response)
       ELSE [response |-> Reply(200, "Booking cancelled"),
             bookings |-> DeleteRows(id), nextId |-> nextId]

CancelBooking_Begin(p, u, id) ==
    /\ pc[p] = "idle"
    /\ Advance(p, deleteBooking_select(
            [NoFrame EXCEPT !.userId = u, !.bookingId = id]))
    /\ UNCHANGED <<side, outbox, schema, now, tz, store>>

CancelBooking_Delete(p) ==
    /\ pc[p] = "del_delete"
    /\ bookings' = DeleteRows(frame[p].bookingId)
    /\ Advance(p, Respond(frame[p], Reply(200, "Booking cancelled")))
    /\ UNCHANGED <<side, outbox, schema, now, tz, services, service_timeslots, nextId>>

\* --------------------------------- GET /api/services/:id/timeslots
RECURSIVE OrderByStartTime(_)
OrderByStartTime(S) ==
    IF S = {} THEN <<>>
    ELSE LET first == CHOOSE r \in S : \A q \in S : r.start_time <= q.start_time
         IN <<first>> \o OrderByStartTime(S \ {first})

\* SELECT start_time, end_time FROM service_timeslots WHERE service_id = $1
\*   AND day_of_week = $2 AND is_available = true ORDER BY start_time
timeslotsResult(id, dow) ==
    OrderByStartTime({[start_time |-> r.start_time, end_time |-> r.end_time] :
        r \in {q \in service_timeslots : /\ q.service_id = id
                                         /\ q.day_of_week = dow
                                         /\ q.is_available}})

\* SELECT time FROM bookings WHERE service_id = $1 AND date = $2
\*   AND status = 'confirmed', as the Set bookedTimes
bookedTimes(ledger, id, d) ==
    {b.time : b \in {q \in ledger : /\ q.service_id = id
                                      /\ q.date = d
                                      /\ q.status = "confirmed"}}

\* time.toString().substring(0, 5): "HH:MM:SS" cut to "HH:MM"
substring5(t) == t \div 60

formatSlot(slot) == [start_time |-> substring5(slot.start_time),
                     end_time |-> substring5(slot.end_time),
                     is_available |-> TRUE]

\* Array.prototype.map(formatSlot)
RECURSIVE formatSlots(_)
formatSlots(rows) ==
    IF rows = <<>> THEN <<>>
    ELSE <<formatSlot(Head(rows))>> \o formatSlots(Tail(rows))

\* rows.filter(slot => !bookedTimes.has(startTime)).map(...)
availableTimeslotsMutant(rows, booked) ==
    LET free(slot) == substring5(slot.start_time) \notin booked
    IN formatSlots(SelectSeq(rows, free))
availableTimeslots(rows, booked) ==
    LET free(slot) == slot.start_time \notin booked
    IN formatSlots(SelectSeq(rows, free))

getTimeslots_servicePastFilter(f) ==
    IF Falsy(f.date)
    THEN Respond(f, Reply(400, "Date parameter is required (YYYY-MM-DD format)"))
    ELSE IF isNaN(f.date)
    THEN Respond(f, Reply(400, "Invalid date format. Use YYYY-MM-DD"))
    ELSE IF IsPast(f.date)
    THEN Respond(f, Reply(200, ""))
    ELSE IF InvalidInteger(f.serviceId)
    THEN Respond(f, [Reply(500, "Server error") EXCEPT !.logged = "22P02"])
    ELSE IF serviceResult(parseInt(f.serviceId)) = {}
    THEN Respond(f, Reply(404, "Service not found"))
    ELSE Continue("ts_timeslots", [f EXCEPT !.dayOfWeek = getDay(getTime(f.date))])
getTimeslots_service(f) ==
    IF Falsy(f.date)
    THEN Respond(f, Reply(400, "Date parameter is required (YYYY-MM-DD format)"))
    ELSE IF isNaN(f.date)
    THEN Respond(f, Reply(400, "Invalid date format. Use YYYY-MM-DD"))
    ELSE IF InvalidInteger(f.serviceId)
    THEN Respond(f, [Reply(500, "Server error") EXCEPT !.logged = "22P02"])
    ELSE IF serviceResult(parseInt(f.serviceId)) = {}
    THEN Respond(f, Reply(404, "Service not found"))
    ELSE Continue("ts_timeslots", [f EXCEPT !.dayOfWeek = getDay(getTime(f.date))])

getTimeslots_timeslots(f) ==
    Continue("ts_bookings",
             [f EXCEPT !.rows = timeslotsResult(parseInt(f.serviceId), f.dayOfWeek)])

getTimeslots_bookings(ledger, f) ==
    Respond(f, [Reply(200, "") EXCEPT !.slots =
        availableTimeslots(f.rows,
                           bookedTimes(ledger, parseInt(f.serviceId), PgDate(f.date)))])

\* availableSlots(serviceId, date): the handler run without interruption,
\* reading the reservations from the given ledger.
availableSlots(ledger, sid, d) ==
    LET s1 == getTimeslots_service([NoFrame EXCEPT !.serviceId = sid, !.date = d])
    IN IF s1.next = "done" THEN s1.response
       ELSE getTimeslots_bookings(ledger, getTimeslots_timeslots(s1.frame).frame).response

getTimeslots(sid, d) == availableSlots(bookings, sid, d)

GetTimeslots_Begin(p, sid, d) ==
    /\ pc[p] = "idle"
    /\ Advance(p, getTimeslots_service([NoFrame EXCEPT !.serviceId = sid, !.date = d]))
    /\ UNCHANGED <<side, outbox, schema, now, tz, store>>

GetTimeslots_Timeslots(p) ==
    /\ pc[p] = "ts_timeslots"
    /\ Advance(p, getTimeslots_timeslots(frame[p]))
    /\ UNCHANGED <<side, outbox, schema, now, tz, store>>

GetTimeslots_Bookings(p) ==
    /\ pc[p] = "ts_bookings"
    /\ Advance(p, getTimeslots_bookings(bookings, frame[p]))
    /\ UNCHANGED <<side, outbox, schema, now, tz, store>>

\* ------------------------------------------------ GET /api/bookings
\* Every order in which the rows of S can be returned.
RECURSIVE Orderings(_)
Orderings(S) ==
    IF S = {} THEN {<<>>}
    ELSE UNION {{<<r>> \o q : q \in Orderings(S \ {r})} : r \in S}

\* ORDER BY date DESC, time DESC (rows with equal keys come in any order)
DateTimeDesc(q) ==
    \A i \in DOMAIN q, j \in DOMAIN q :
        i < j => \/ q[i].date > q[j].date
                 \/ q[i].date = q[j].date /\ q[i].time >= q[j].time

\* SELECT ... FROM bookings WHERE user_id = $1 ORDER BY date DESC, time DESC
bookingsResultAllUsers(ledger, u) == {q \in Orderings(ledger) : DateTimeDesc(q)}
bookingsResult(ledger, u) ==
    {q \in Orderings({b \in ledger : b.user_id = u}) : DateTimeDesc(q)}

\* result.rows.map(booking => ({ ...booking, date: YYYY-MM-DD, ... }))
RECURSIVE formatBookings(_)
formatBookings(rows) ==
    IF rows = <<>> THEN <<>>
    ELSE <<[Head(rows) EXCEPT !.date = toISODate(Head(rows).date)]>>
         \o formatBookings(Tail(rows))

\* The responses the handler can send to user u, reading the given ledger.
getBookings(ledger, u) ==
    {[Reply(200, "") EXCEPT !.list = formatBookings(q)] : q \in bookingsResult(ledger, u)}

GetBookings(p, u) ==
    /\ pc[p] = "idle"
    /\ \E r \in getBookings(bookings, u) :
          Advance(p, Respond([NoFrame EXCEPT !.userId = u], r))
    /\ UNCHANGED <<side, outbox, schema, now, tz, store>>

\* ---------------------------------------------------- authenticateToken
\* The middleware in front of the three bookings routes.
authenticateTokenDecodeOnly(h) ==
    IF h.kind \in {"absent", "notoken"}
    THEN [next |-> FALSE, userId |-> 0, response |-> Reply(401, "Access token required")]
    ELSE [next |-> TRUE, userId |-> h.id, response |-> NoResponse]
authenticateToken(h) ==
    IF h.kind \in {"absent", "notoken"}
    THEN [next |-> FALSE, userId |-> 0, response |-> Reply(401, "Access token required")]
    ELSE IF h.kind # "verified"
    THEN [next |-> FALSE, userId |-> 0, response |-> Reply(403, "Invalid token")]
    ELSE [next |-> TRUE, userId |-> h.id, response |-> NoResponse]

\* app.post('/api/bookings', authenticateToken, handler) up to the
\* handler's first await.
PostBookings(p, h, sid, d, t) ==
    /\ pc[p] = "idle"
    /\ nextId + InFlightCreates <= MaxBookingId
    /\ auth' = [auth EXCEPT ![p] = h]
    /\ LET a == authenticateToken(h) IN
       IF a.next
       THEN Advance(p, postBookings_service(
                [NoFrame EXCEPT !.userId = a.userId, !.serviceId = sid,
                                !.date = d, !.time = t]))
       ELSE Advance(p, Respond(NoFrame, a.response))
    /\ UNCHANGED <<mail, proc, memory, form, outbox, schema, now, tz, store>>

\* app.delete('/api/bookings/:id', authenticateToken, handler) up to the
\* handler's first await.
DeleteBookings(p, h, id) ==
    /\ pc[p] = "idle"
    /\ auth' = [auth EXCEPT ![p] = h]
    /\ LET a == authenticateToken(h) IN
       IF a.next
       THEN Advance(p, deleteBooking_select(
                [NoFrame EXCEPT !.userId = a.userId, !.bookingId = id]))
       ELSE Advance(p, Respond(NoFrame, a.response))
    /\ UNCHANGED <<mail, proc, memory, form, outbox, schema, now, tz, store>>

\* app.get('/api/bookings', authenticateToken, handler).
ListBookings(p, h) ==
    /\ pc[p] = "idle"
    /\ auth' = [auth EXCEPT ![p] = h]
    /\ LET a == authenticateToken(h) IN
       IF a.next
       THEN \E r \in getBookings(bookings, a.userId) :
               Advance(p, Respond([NoFrame EXCEPT !.userId = a.userId], r))
       ELSE Advance(p, Respond(NoFrame, a.response))
    /\ UNCHANGED <<mail, proc, memory, form, outbox, schema, now, tz, store>>

\* ----------------------------------------------------- in-memory variant
\* let services = [...]: three services, ids 1 to 3.
MemoryServices == {[id |-> i, name |-> ServiceNames[i]] : i \in DOMAIN ServiceNames}

\* app.post('/api/bookings') on the bookings array.
memoryPostBookings(arr, u, sid, d, t) ==
    IF Falsy(sid) \/ Falsy(d) \/ Falsy(t)
    THEN [bookings |-> arr, response |-> Reply(400, "Missing required fields")]
    ELSE IF parseIntIsNaN(sid) \/ ~\E sv \in MemoryServices : sv.id = parseInt(sid)
    THEN [bookings |-> arr, response |-> Reply(404, "Service not found")]
    ELSE IF isNaN(d)
    THEN [bookings |-> arr, response |-> Reply(400, "Invalid date format")]
    ELSE IF IsPast(d)
    THEN [bookings |-> arr, response |-> Reply(400, "Cannot book past dates")]
    ELSE [bookings |-> Append(arr, [id |-> Len(arr) + 1,
                                     userId |-> u,
                                     serviceId |-> parseInt(sid),
                                     serviceName |-> ServiceNames[parseInt(sid)],
                                     date |-> d,
                                     time |-> t,
                                     createdAt |-> now,
                                     status |-> "confirmed"]),
          response |-> Reply(201, "Booking created successfully")]

\* app.delete('/api/bookings/:id') on the bookings array: find returns the
\* first element with the id, filter drops every element with the id.
memoryDeleteBooking(arr, u, id) ==
    LET found == {i \in DOMAIN arr : arr[i].id = id}
        Keep(b) == b.id # id
    IN IF found = {}
       THEN [bookings |-> arr, response |-> Reply(404, "Booking not found")]
       ELSE LET booking == arr[CHOOSE i \in found : \A j \in found : i <= j] IN
            IF booking.userId # u
            THEN [bookings |-> arr, response |-> Reply(403, "Unauthorized")]
            ELSE [bookings |-> SelectSeq(arr, Keep),
                  response |-> Reply(200, "Booking cancelled")]

MemoryCreateBooking(u, sid, d, t) ==
    /\ Len(memory.bookings) < MaxArray
    /\ LET r == memoryPostBookings(memory.bookings, u, sid, d, t) IN
       memory' = [bookings |-> r.bookings,
                  request |-> [op |-> "create", userId |-> u, bookingId |-> 0],
                  response |-> r.response]
    /\ UNCHANGED <<server, mail, form>>

MemoryCancelBooking(u, id) ==
    /\ LET r == memoryDeleteBooking(memory.bookings, u, id) IN
       memory' = [bookings |-> r.bookings,
                  request |-> [op |-> "cancel", userId |-> u, bookingId |-> id],
                  response |-> r.response]
    /\ UNCHANGED <<server, mail, form>>

\* ------------------------------------------------------------ BookingForm
\* The service prop of the form.
BookingFormService == CHOOSE sv \in SeedServices : TRUE

\* servicesAPI.getTimeslots(id, date): GET /api/services/:id/timeslots
\* through apiCall, which returns the parsed body or throws Error(data.error)
\* when the response is not ok.
servicesAPI_getTimeslots(id, d) ==
    LET r == getTimeslots(IntText(id), d) IN
    IF r.status = 200 THEN [ok |-> TRUE, data |-> r.slots, message |-> ""]
    ELSE [ok |-> FALSE, data |-> <<>>, message |-> r.text]

\* onChange of the date input and the effect it triggers: the time and the
\* error are reset; without a date the list is emptied, with one
\* fetchTimeslots starts and its request is sent.
BookingForm_setDate(d) ==
    /\ d # form.date
    /\ form.sent < MaxRequests
    /\ form' = IF Falsy(d)
               THEN [form EXCEPT !.date = d, !.time = Absent, !.error = "",
                                 !.timeslots = <<>>]
               ELSE [form EXCEPT !.date = d, !.time = Absent, !.error = "",
                                 !.loadingTimeslots = TRUE,
                                 !.sent = @ + 1,
                                 !.requests = @ \cup {[n |-> form.sent + 1, date |-> d]}]
    /\ UNCHANGED <<server, mail, memory>>

\* await servicesAPI.getTimeslots(service.id, date) of one fetchTimeslots
\* returns or throws: the try, catch and finally blocks run, whatever date
\* the form shows by now.
BookingForm_fetchTimeslots(req) ==
    /\ req \in form.requests
    /\ LET r == servicesAPI_getTimeslots(BookingFormService.id, req.date) IN
       form' = [form EXCEPT
                  !.requests = @ \ {req},
                  !.timeslots = r.data,
                  !.error = IF ~r.ok THEN r.message
                            ELSE IF Len(r.data) = 0
                            THEN "No available timeslots for this date. Please select another date."
                            ELSE "",
                  !.loadingTimeslots = FALSE]
    /\ UNCHANGED <<server, mail, memory>>

\* onChange of the time select, which is rendered when no fetch is shown
\* as loading, a date is selected and the list is not empty; its options
\* are "" and the start times of the list.
BookingForm_setTime(t) ==
    /\ ~form.loadingTimeslots
    /\ ~Falsy(form.date)
    /\ Len(form.timeslots) > 0
    /\ \/ Falsy(t)
       \/ \E i \in DOMAIN form.timeslots : form.timeslots[i].start_time = t.val
    /\ t # form.time
    /\ form' = [form EXCEPT !.time = t]
    /\ UNCHANGED <<server, mail, memory>>

\* ------------------------------------------------------ email service
\* process.env as createTransporter reads it: which of SMTP_HOST, SMTP_USER
\* and SMTP_PASS are set.
SmtpEnvs == [host : BOOLEAN, user : BOOLEAN, pass : BOOLEAN]
Subjects == {"Booking Confirmed", "Welcome"}

\* createTransporter(): null unless host, user and password are all set.
createTransporter(env) ==
    IF ~env.host \/ ~env.user \/ ~env.pass THEN "null" ELSE "smtp"

\* sendEmail up to its await: without a transporter it logs and returns.
sendEmail_start(m, to, subject, env) ==
    IF createTransporter(env) = "null"
    THEN [m EXCEPT !.pc = "resolved", !.to = to, !.subject = subject,
                   !.log = "[Email] SMTP not configured. Would have sent email:"]
    ELSE [m EXCEPT !.pc = "send", !.to = to, !.subject = subject]

\* await transporter.sendMail(...) inside try: the send succeeds, or it
\* throws and the catch block logs the error and does not rethrow.
sendEmail_sentRethrow(m, ok) ==
    IF ok THEN [m EXCEPT !.pc = "resolved", !.log = "[Email] Sent successfully to"]
    ELSE [m EXCEPT !.pc = "rejected", !.log = "[Email] Failed to send:"]
sendEmail_sent(m, ok) ==
    IF ok THEN [m EXCEPT !.pc = "resolved", !.log = "[Email] Sent successfully to"]
    ELSE [m EXCEPT !.pc = "resolved", !.log = "[Email] Failed to send:"]

SendEmail_Begin(p, to, subject, env) ==
    /\ mail[p].pc = "idle"
    /\ mail' = [mail EXCEPT ![p] = sendEmail_start(mail[p], to, subject, env)]
    /\ UNCHANGED <<server, memory, form>>

SendEmail_Send(p, ok) ==
    /\ mail[p].pc = "send"
    /\ mail' = [mail EXCEPT ![p] = sendEmail_sent(mail[p], ok)]
    /\ UNCHANGED <<server, memory, form>>

\* The caller's await sendEmail(...) returns (or throws).
SendEmail_Settle(p) ==
    /\ mail[p].pc \in {"resolved", "rejected"}
    /\ mail' = [mail EXCEPT ![p] = NoMail]
    /\ UNCHANGED <<server, memory, form>>

\* ------------------------------------------------------------ environment
\* The client reads the response; the connection is free for a new request.
Receive(p) ==
    /\ pc[p] = "done"
    /\ pc' = [pc EXCEPT ![p] = "idle"]
    /\ frame' = [frame EXCEPT ![p] = NoFrame]
    /\ response' = [response EXCEPT ![p] = NoResponse]
    /\ UNCHANGED <<side, outbox, schema, now, tz, store>>

\* Time passes: new Date() returns a later instant.
Tick ==
    /\ now < MaxNow
    /\ now' = now + 1
    /\ UNCHANGED <<side, outbox, schema, tz, store, pc, frame, response>>

\* An administrator enables or disables a template (column is_available).
SetTimeslotAvailable(r, b) ==
    /\ r \in service_timeslots
    /\ r.is_available # b
    /\ LET after == (service_timeslots \ {r}) \cup {[r EXCEPT !.is_available = b]}
       IN /\ Cardinality({q \in after : ~q.is_available}) <= MaxDisabled
          /\ service_timeslots' = after
    /\ UNCHANGED <<side, outbox, schema, now, tz, services, bookings, nextId, pc, frame, response>>

\* ------------------------------------------------------------- migrations
\* The database as runMigrations sees it.
Database == [schema |-> schema, services |-> services,
             service_timeslots |-> service_timeslots, bookings |-> bookings]

\* The tables 001_initial_schema.sql creates: no service_timeslots, and
\* bookings without the UNIQUE constraint.
InitialSchema == {"users", "services", "bookings"}

\* CREATE TABLE IF NOT EXISTS ...: a table that exists is left as it is,
\* with the columns and constraints it has.
createTables(sch) ==
    sch \cup {"users", "services", "service_timeslots"}
        \cup (IF "bookings" \in sch THEN {} ELSE {"bookings", BookingsUnique})

\* INSERT INTO services ... ON CONFLICT (name) DO NOTHING, name by name.
RECURSIVE insertServices(_, _)
insertServices(rows, i) ==
    IF i > NumServices THEN rows
    ELSE IF \E sv \in rows : sv.name = ServiceNames[i]
    THEN insertServices(rows, i + 1)
    ELSE insertServices(rows \cup {[id |-> Cardinality(rows) + 1,
                                    name |-> ServiceNames[i]]}, i + 1)

\* INSERT INTO service_timeslots ... ON CONFLICT (service_id, day_of_week,
\* start_time) DO NOTHING, for every service in the table.
insertTimeslotsOverwrite(svcs, rows) ==
    {[service_id |-> sv.id, day_of_week |-> d, start_time |-> h * 3600,
      end_time |-> (h + 1) * 3600, is_available |-> TRUE] :
        sv \in svcs, d \in FirstDay..LastDay, h \in FirstHour..LastHour}
insertTimeslots(svcs, rows) ==
    rows \cup
    {r \in {[service_id |-> sv.id, day_of_week |-> d, start_time |-> h * 3600,
             end_time |-> (h + 1) * 3600, is_available |-> TRUE] :
                sv \in svcs, d \in FirstDay..LastDay, h \in FirstHour..LastHour} :
        ~\E q \in rows : /\ q.service_id = r.service_id
                          /\ q.day_of_week = r.day_of_week
                          /\ q.start_time = r.start_time}

runMigrations(db) ==
    LET svcs == insertServices(db.services, 1) IN
    [schema |-> createTables(db.schema),
     services |-> svcs,
     service_timeslots |-> insertTimeslots(svcs, db.service_timeslots),
     bookings |-> db.bookings]

\* The statements of runMigrations that change the database, in order.
MigrationSteps == <<"users", "services", "service_timeslots", "bookings",
                    "seedServices", "seedTimeslots">>

migrationStep(db, name) ==
    CASE name = "seedServices" ->
           [db EXCEPT !.services = insertServices(db.services, 1)]
      [] name = "seedTimeslots" ->
           [db EXCEPT !.service_timeslots =
                          insertTimeslots(db.services, db.service_timeslots)]
      [] OTHER ->
           IF name \in db.schema THEN db
           ELSE [db EXCEPT !.schema =
                    db.schema \cup {name}
                        \cup (IF name = "bookings" THEN {BookingsUnique} ELSE {})]

\* runMigrations when the statement after the k-th throws (k = 0: the pool
\* gives no client): the statements are not in a transaction, so what the
\* first k did stays.
RECURSIVE runMigrationsFailing(_, _)
runMigrationsFailing(db, k) ==
    IF k = 0 THEN db
    ELSE migrationStep(runMigrationsFailing(db, k - 1), MigrationSteps[k])

\* runMigrations().then(app.listen).catch(process.exit(1))
startServerListenAnyway(ok) == Listening
startServer(ok) == IF ok THEN Listening ELSE Exited("1")

\* The server is listening: runMigrations has completed.
Migrated == proc = Listening

\* The process has started: runMigrations completes, then app.listen.
RunMigrations ==
    /\ proc = Migrating
    /\ LET db == runMigrations(Database) IN
       /\ schema' = db.schema
       /\ services' = db.services
       /\ service_timeslots' = db.service_timeslots
       /\ bookings' = db.bookings
    /\ proc' = startServer(TRUE)
    /\ UNCHANGED <<mail, auth, memory, form, outbox, now, tz, nextId, pc, frame, response>>

\* runMigrations rejects after k statements: the catch logs and exits.
RunMigrationsFails(k) ==
    /\ proc = Migrating
    /\ LET db == runMigrationsFailing(Database, k) IN
       /\ schema' = db.schema
       /\ services' = db.services
       /\ service_timeslots' = db.service_timeslots
       /\ bookings' = db.bookings
    /\ proc' = startServer(FALSE)
    /\ UNCHANGED <<mail, auth, memory, form, outbox, now, tz, nextId, pc, frame, response>>

\* The operator starts the server again (node server.js).
StartProcess ==
    /\ proc # Migrating
    /\ \A p \in Calls : pc[p] = "idle"
    /\ proc' = Migrating
    /\ UNCHANGED <<mail, auth, memory, form, outbox, schema, store, now, tz, pc, frame, response>>

\* An administrator renames a service (column name, UNIQUE).
RenameService(id, name) ==
    /\ \E sv \in services : sv.id = id /\ sv.name # name
    /\ ~\E sv \in services : sv.name = name
    /\ services' = {IF sv.id = id THEN [sv EXCEPT !.name = name] ELSE sv : sv \in services}
    /\ UNCHANGED <<side, outbox, schema, now, tz, service_timeslots, bookings, nextId, pc, frame, response>>

\* No handler is running and no response is waiting to be read: the next
\* request is taken, on the first connection.
NextRequest(p) == /\ \A q \in Calls : pc[q] = "idle"
                  /\ \A q \in Calls : p <= q

\* The server with its environment, one request at a time.
Next ==
    \/ \E p \in Calls, u \in Users, sid \in ServiceIdInputs, d \in DateInputs,
          t \in TimeInputs : NextRequest(p) /\ CreateBooking_Begin(p, u, sid, d, t)
    \/ \E p \in Calls : CreateBooking_Timeslot(p)
    \/ \E p \in Calls : CreateBooking_Existing(p)
    \/ \E p \in Calls : CreateBooking_Insert(p)
    \/ \E p \in Calls, u \in Users, id \in 1..MaxBookingId :
          NextRequest(p) /\ CancelBooking_Begin(p, u, id)
    \/ \E p \in Calls : CancelBooking_Delete(p)
    \/ \E p \in Calls, sid \in ServiceIdInputs \ {Absent}, d \in DateInputs :
          NextRequest(p) /\ GetTimeslots_Begin(p, sid, d)
    \/ \E p \in Calls : GetTimeslots_Timeslots(p)
    \/ \E p \in Calls : GetTimeslots_Bookings(p)
    \/ \E p \in Calls : Receive(p)
    \/ Tick
    \/ \E r \in service_timeslots, b \in BOOLEAN : SetTimeslotAvailable(r, b)

Spec == Init /\ [][Next]_vars

\* Handlers interleaving at their awaits, the clock and the templates fixed.
NextConcurrent ==
    \/ \E p \in Calls, u \in Users, sid \in ServiceIdInputs, d \in DateInputs,
          t \in TimeInputs : CreateBooking_Begin(p, u, sid, d, t)
    \/ \E p \in Calls : CreateBooking_Timeslot(p)
    \/ \E p \in Calls : CreateBooking_Existing(p)
    \/ \E p \in Calls : CreateBooking_Insert(p)
    \/ \E p \in Calls, u \in Users, id \in 1..MaxBookingId : CancelBooking_Begin(p, u, id)
    \/ \E p \in Calls : CancelBooking_Delete(p)
    \/ \E p \in Calls : Receive(p)

SpecConcurrent == Init /\ [][NextConcurrent]_vars

\* The ledger's requests one at a time, while services are renamed.
NextLedger ==
    \/ \E p \in Calls, u \in Users, sid \in ServiceIdInputs, d \in DateInputs,
          t \in TimeInputs : NextRequest(p) /\ CreateBooking_Begin(p, u, sid, d, t)
    \/ \E p \in Calls : CreateBooking_Timeslot(p)
    \/ \E p \in Calls : CreateBooking_Existing(p)
    \/ \E p \in Calls : CreateBooking_Insert(p)
    \/ \E p \in Calls, u \in Users, id \in 1..MaxBookingId :
          NextRequest(p) /\ CancelBooking_Begin(p, u, id)
    \/ \E p \in Calls : CancelBooking_Delete(p)
    \/ \E p \in Calls, u \in Users : NextRequest(p) /\ GetBookings(p, u)
    \/ \E p \in Calls : Receive(p)
    \/ \E id \in 1..NumServices, i \in DOMAIN ServiceNames : RenameService(id, ServiceNames[i])

SpecLedger == Init /\ [][NextLedger]_vars

\* A database before the server's first start: empty, or created by
\* 001_initial_schema.sql and used since (it may hold a booking).
MigrateInit ==
    /\ now = 1
    /\ tz \in TimeZones
    /\ pc = [p \in Calls |-> "idle"]
    /\ frame = [p \in Calls |-> NoFrame]
    /\ response = [p \in Calls |-> NoResponse]
    /\ outbox = <<>>
    /\ mail = [p \in Calls |-> NoMail]
    /\ auth = [p \in Calls |-> NoHeader]
    /\ memory = NoMemory
    /\ form = NoForm
    /\ proc = Migrating
    /\ service_timeslots = {}
    /\ \/ /\ schema = {}
          /\ services = {}
          /\ bookings = {}
          /\ nextId = 1
       \/ /\ schema = InitialSchema
          /\ services = SeedServices
          /\ \/ bookings = {} /\ nextId = 1
             \/ /\ nextId = 2
                /\ \E u \in Users, d \in Dates, t \in TimeInputs \ {Absent} :
                      bookings = {[id |-> 1, user_id |-> u, service_id |-> 1,
                                   service_name |-> ServiceNames[1], date |-> d,
                                   time |-> PgTime(t), status |-> "confirmed"]}

\* The server started on such a database, then serving requests.
NextMigrate ==
    \/ RunMigrations
    \/ \E k \in 0..(Len(MigrationSteps) - 1) : RunMigrationsFails(k)
    \/ StartProcess
    \/ \E p \in Calls, u \in Users, sid \in ServiceIdInputs, d \in DateInputs,
          t \in TimeInputs :
          Migrated /\ NextRequest(p) /\ CreateBooking_Begin(p, u, sid, d, t)
    \/ \E p \in Calls : CreateBooking_Timeslot(p)
    \/ \E p \in Calls : CreateBooking_Existing(p)
    \/ \E p \in Calls : CreateBooking_Insert(p)
    \/ \E p \in Calls, u \in Users, id \in 1..MaxBookingId :
          Migrated /\ NextRequest(p) /\ CancelBooking_Begin(p, u, id)
    \/ \E p \in Calls : CancelBooking_Delete(p)
    \/ \E p \in Calls : Receive(p)
    \/ \E r \in service_timeslots, b \in BOOLEAN : SetTimeslotAvailable(r, b)

SpecMigrate == MigrateInit /\ [][NextMigrate]_vars

\* The bookings routes behind authenticateToken, one request at a time.
NextAuth ==
    \/ \E p \in Calls, h \in AuthHeaders, sid \in ServiceIdInputs, d \in DateInputs,
          t \in TimeInputs : NextRequest(p) /\ PostBookings(p, h, sid, d, t)
    \/ \E p \in Calls : CreateBooking_Timeslot(p)
    \/ \E p \in Calls : CreateBooking_Existing(p)
    \/ \E p \in Calls : CreateBooking_Insert(p)
    \/ \E p \in Calls, h \in AuthHeaders, id \in 1..MaxBookingId :
          NextRequest(p) /\ DeleteBookings(p, h, id)
    \/ \E p \in Calls : CancelBooking_Delete(p)
    \/ \E p \in Calls, h \in AuthHeaders : NextRequest(p) /\ ListBookings(p, h)
    \/ \E p \in Calls : Receive(p)

SpecAuth == Init /\ [][NextAuth]_vars

\* The in-memory variant: its handlers have no await, so each runs whole.
NextMemory ==
    \/ \E u \in Users, sid \in ServiceIdInputs, d \in DateInputs,
          t \in {TimeText(FirstHour * 60), Absent} : MemoryCreateBooking(u, sid, d, t)
    \/ \E u \in Users, id \in 1..MaxArray : MemoryCancelBooking(u, id)

SpecMemory == Init /\ [][NextMemory]_vars

\* The BookingForm over a server whose answers do not change.
NextForm ==
    \/ \E d \in DateInputs \ {Garbage} : BookingForm_setDate(d)
    \/ \E n \in 1..MaxRequests, d \in DateInputs :
          BookingForm_fetchTimeslots([n |-> n, date |-> d])
    \/ \E t \in TimeInputs : BookingForm_setTime(t)

SpecForm == Init /\ [][NextForm]_vars

\* The email service under its callers.
NextEmail ==
    \/ \E p \in Calls, to \in Users, subject \in Subjects, env \in SmtpEnvs :
          SendEmail_Begin(p, to, subject, env)
    \/ \E p \in Calls, ok \in BOOLEAN : SendEmail_Send(p, ok)
    \/ \E p \in Calls : SendEmail_Settle(p)

SpecEmail == Init /\ [][NextEmail]_vars

\* N callers that have all passed the service lookup for one and the same
\* (service, date, time) and now race through the rest of createBooking.
\* The slot is free; another slot of the service may be taken already.
RaceInit ==
    /\ now \in 1..MaxNow
    /\ tz \in TimeZones
    /\ services = SeedServices
    /\ service_timeslots = SeedTimeslots
    /\ nextId = 2
    /\ pc = [p \in Calls |-> "cb_timeslot"]
    /\ response = [p \in Calls |-> NoResponse]
    /\ outbox = <<>>
    /\ schema = FullSchema
    /\ mail = [p \in Calls |-> NoMail]
    /\ auth = [p \in Calls |-> NoHeader]
    /\ memory = NoMemory
    /\ form = NoForm
    /\ proc = Listening
    /\ \E sid \in ServiceIdInputs \ {Absent}, d \in DateInputs \ {Absent},
          t \in TimeInputs \ {Absent} :
          /\ serviceResult(parseInt(sid)) # {}
          /\ \E owner \in [Calls -> Users] :
                frame = [p \in Calls |->
                    postBookings_service([NoFrame EXCEPT !.userId = owner[p],
                        !.serviceId = sid, !.date = d, !.time = t]).frame]
          /\ \E other \in TimeInputs \ {Absent, t} :
                bookings \in {{}, {[id |-> 1, user_id |-> 1,
                    service_id |-> parseInt(sid),
                    service_name |-> ServiceNames[parseInt(sid)],
                    date |-> PgDate(d), time |-> PgTime(other),
                    status |-> "confirmed"]}}

NextRace ==
    \/ \E p \in Calls : CreateBooking_Timeslot(p)
    \/ \E p \in Calls : CreateBooking_Existing(p)
    \/ \E p \in Calls : CreateBooking_Insert(p)
    \/ Tick

SpecRace == RaceInit /\ [][NextRace]_vars

\* ----------------------------------------------------------------- claims
Confirmed(b) == b.status = "confirmed"
SameSlot(a, b) == a.service_id = b.service_id /\ a.date = b.date /\ a.time = b.time

AlreadyBooked(r) == r.status = 409 /\ r.text = "This time slot is already booked. Please select another time."
Created(r) == r.status = 201
PastDate(r) == r.status = 400 /\ r.text = "Cannot book past dates"
SlotNotOffered(r) == r.status = 400 /\ r.text = "This time slot is not available for this service on the selected day"
ServerError(r) == r.status = 500

\* C1: under every interleaving of createBooking and cancelBooking calls the
\* ledger never holds two confirmed reservations with the same service id,
\* date and start time.
C1_NoDoubleBooking ==
    \A a \in bookings, b \in bookings :
        (Confirmed(a) /\ Confirmed(b) /\ SameSlot(a, b)) => a = b

\* Two callers have both passed the pre-check for one slot and one of them
\* has already stored its reservation.
C1_Witness ==
    \E p \in Calls :
        /\ pc[p] = "cb_insert"
        /\ \E b \in bookings : Confirmed(b) /\ SameSlot(b, NewBooking(frame[p]))

\* C2: when all the racing callers have been answered, and the date is not
\* past and an enabled template matches, exactly one of them was answered
\* 201 and each of the others 409 (slot already booked).
C2_ExactlyOneWins ==
    [][\A p \in Calls :
          ( /\ pc[p] # "done"
            /\ \A q \in Calls : pc'[q] = "done"
            /\ ~IsPast(frame[p].date)
            /\ ~isNaN(frame[p].date)
            /\ timeslotResult(parseInt(frame[p].serviceId),
                              getDay(getTime(frame[p].date)),
                              PgTime(frame[p].time)) # {} )
          => /\ Cardinality({q \in Calls : Created(response'[q])}) = 1
             /\ \A q \in Calls : Created(response'[q]) \/ AlreadyBooked(response'[q])
      ]_vars

\* Every caller has been answered: one stored the reservation, one lost at
\* the insert (error 23505).
C2_Witness ==
    /\ \A q \in Calls : pc[q] = "done"
    /\ \E q \in Calls : Created(response[q])
    /\ \E q \in Calls : AlreadyBooked(response[q]) /\ response[q].logged = "23505"

\* C3: a createBooking call whose insert the unique index rejects answers 409
\* (slot already booked), not 500, and the ledger is as it was before the
\* insert.
C3_ConstraintViolationIs409 ==
    [][\A p \in Calls :
          ( /\ pc[p] = "cb_insert"
            /\ pc'[p] = "done"
            /\ UniqueViolation(NewBooking(frame[p])) )
          => /\ AlreadyBooked(response'[p])
             /\ ~ServerError(response'[p])
             /\ bookings' = bookings
      ]_vars

\* A call was answered 409 from the catch block, after error 23505.
C3_Witness ==
    \E p \in Calls :
        /\ pc[p] = "done"
        /\ response[p].logged = "23505"
        /\ AlreadyBooked(response[p])

\* ------------------------------------------- claims on the handlers' results
ExistingIds == {sv.id : sv \in services}
StartTexts == {t.val : t \in TimeInputs \ {Absent}}

\* The slots availableSlots(sid, d) answers, and whether one starts at "HH:MM" m.
SlotsOf(sid, d) == getTimeslots(IntText(sid), DateText(d)).slots
Listed(sid, d, m) ==
    LET slots == SlotsOf(sid, d) IN \E i \in DOMAIN slots : slots[i].start_time = m

\* The enabled templates of the service for the weekday of the calendar date
\* d that no confirmed reservation for (sid, d) starts at.
OpenTemplates(sid, d) ==
    {r \in service_timeslots :
        /\ r.service_id = sid
        /\ r.day_of_week = CalendarDay(d)
        /\ r.is_available
        /\ ~\E b \in bookings : /\ Confirmed(b)
                                /\ b.service_id = sid
                                /\ b.date = d
                                /\ b.time = r.start_time}

\* C4: for every existing service and every parseable date, availableSlots
\* answers exactly the enabled templates for the date's day of the week whose
\* start time no confirmed reservation for (service, date) has, in strictly
\* ascending start-time order (so none repeated).
C4_AvailableSlotsExact ==
    \A sid \in ExistingIds, d \in Dates :
        LET r == getTimeslots(IntText(sid), DateText(d)) IN
        /\ r.status = 200
        /\ {<<r.slots[i].start_time, r.slots[i].end_time>> : i \in DOMAIN r.slots}
             = {<<substring5(x.start_time), substring5(x.end_time)>> :
                    x \in OpenTemplates(sid, d)}
        /\ \A i \in DOMAIN r.slots, j \in DOMAIN r.slots :
              i < j => r.slots[i].start_time < r.slots[j].start_time

\* C5: for every confirmed reservation R in the ledger, availableSlots for
\* R's service and date, asked in that state, lists no slot starting at R's
\* time.
C5_BookedNotListed ==
    \A R \in bookings :
        Confirmed(R) => ~Listed(R.service_id, R.date, substring5(R.time))

\* An availableSlots call was answered with a list that leaves out the
\* booked start time and still offers another slot of that day.
C5_Witness ==
    \E p \in Calls, R \in bookings :
        /\ pc[p] = "done"
        /\ response[p].status = 200
        /\ response[p].slots # <<>>
        /\ parseInt(frame[p].serviceId) = R.service_id
        /\ frame[p].date = DateText(R.date)
        /\ response[p].slots = SlotsOf(R.service_id, R.date)

\* The template createBooking matched for reservation R is enabled.
TemplateEnabled(R) ==
    timeslotResult(R.service_id, getDay(R.date * TicksPerDay), R.time) # {}
ListedIn(ledger, R) ==
    LET slots == availableSlots(ledger, IntText(R.service_id), DateText(R.date)).slots
    IN \E i \in DOMAIN slots : slots[i].start_time = substring5(R.time)

\* C6: right after a successful cancelBooking of reservation R,
\* availableSlots for R's service and date lists the slot starting at R's
\* time again, provided the matching template is still enabled.
C6_CancelFreesSlot ==
    [][\A p \in Calls :
          (pc[p] = "del_delete" /\ pc'[p] = "done" /\ response'[p].status = 200)
          => \A R \in bookings :
                (R.id = frame[p].bookingId /\ TemplateEnabled(R)')
                => ListedIn(bookings', R)
      ]_vars

\* A reservation was made and cancelled, the ledger is empty again and every
\* template of the day is offered.
C6_Witness ==
    \E p \in Calls :
        /\ pc[p] = "done"
        /\ response[p] = Reply(200, "Booking cancelled")
        /\ bookings = {}
        /\ \E sid \in ExistingIds, d \in Dates :
              Len(SlotsOf(sid, d)) = LastHour - FirstHour + 1

\* A further createBooking for the slot of the stored reservation R.
Rebook(u, R) ==
    createBooking(u, IntText(R.service_id), DateText(R.date),
                  TimeText(substring5(R.time))).response

C8_TodayIsBookable ==
    \A u \in Users, sid \in ExistingIds, m \in StartTexts :
        LET r == createBooking(u, IntText(sid), DateText(Today), TimeText(m)).response IN
        /\ ~PastDate(r)
        /\ ( /\ timeslotResult(sid, CalendarDay(Today), PgTime(TimeText(m))) # {}
             /\ existingBooking(sid, Today, PgTime(TimeText(m))) = {} )
           => Created(r)

\* C9: createBooking with all fields present, an existing service and the
\* day before the server's current day is answered "past date" and stores
\* nothing, whatever the time, the templates and the reservations.
C9_YesterdayIsPast ==
    \A u \in Users, sid \in ExistingIds, t \in TimeInputs \ {Absent} :
        LET c == createBooking(u, IntText(sid), DateText(Today - 1), t) IN
        /\ PastDate(c.response)
        /\ c.bookings = bookings

\* A createBooking call for yesterday was answered "past date".
C9_Witness ==
    \E p \in Calls :
        /\ pc[p] = "done"
        /\ frame[p].date = DateText(Today - 1)
        /\ PastDate(response[p])
        /\ bookings # {}

\* C10: createBooking for an existing service and a date that is not past
\* is answered "not offered" whenever the service has no enabled template
\* for the date's day of the week and the time.
C10_NoTemplateNotOffered ==
    \A u \in Users, sid \in ExistingIds, d \in Dates, t \in TimeInputs \ {Absent} :
        ( /\ ~IsPast(DateText(d))
          /\ timeslotResult(sid, CalendarDay(d), PgTime(t)) = {} )
        => SlotNotOffered(createBooking(u, IntText(sid), DateText(d), t).response)

\* The service lookup's "not found" answer.
ServiceNotFound(r) == r.status = 404 /\ r.text = "Service not found"

\* C11: createBooking with all fields present is answered "service not
\* found", and stores nothing, for every serviceId that references no
\* existing service.
C11_UnknownServiceNotFound ==
    \A u \in Users, sid \in ServiceIdInputs \ {Absent}, d \in DateInputs \ {Absent},
       t \in TimeInputs \ {Absent} :
        (parseIntIsNaN(sid) \/ parseInt(sid) \notin ExistingIds)
        => LET c == createBooking(u, sid, d, t) IN
           /\ ServiceNotFound(c.response)
           /\ c.bookings = bookings

NotFound(r) == r.status = 404 /\ r.text = "Booking not found"
Forbidden(r) == r.status = 403 /\ r.text = "Unauthorized"
Cancelled(r) == r.status = 200 /\ r.text = "Booking cancelled"

C13_ReservationLifecycle ==
    [][ /\ \A b \in bookings' \ bookings :
              /\ b.status = "confirmed"
              /\ b.id = nextId
              /\ \E p \in Calls : /\ pc[p] = "cb_insert"
                                  /\ pc'[p] = "done"
                                  /\ Created(response'[p])
                                  /\ b = NewBooking(frame[p])
        /\ \A b \in bookings, c \in bookings' : b.id = c.id => b = c
        /\ \A b \in bookings \ bookings' :
              \E p \in Calls : /\ pc[p] = "del_delete"
                                /\ pc'[p] = "done"
                                /\ Cancelled(response'[p])
                                /\ frame[p].bookingId = b.id
        /\ nextId' >= nextId
        /\ \A b \in bookings' : b.id < nextId'
        /\ \A b \in bookings : b.id < nextId
      ]_vars

\* The first reservation was cancelled and a later createBooking stored a
\* new reservation under the next id.
C13_Witness ==
    \E p \in Calls, b \in bookings :
        /\ pc[p] = "done"
        /\ Created(response[p])
        /\ response[p].booking.id = b.id
        /\ b.id = 2
        /\ ~\E c \in bookings : c.id = 1

\* C14: for a service with no enabled template on the day of the week of a
\* date, availableSlots for that date answers 200 with the empty list.
C14_NoTemplatesEmptyList ==
    \A sid \in ExistingIds, d \in Dates :
        (~\E r \in service_timeslots : /\ r.service_id = sid
                                        /\ r.day_of_week = CalendarDay(d)
                                        /\ r.is_available)
        => LET r == getTimeslots(IntText(sid), DateText(d)) IN
           r.status = 200 /\ r.slots = <<>>

\* The service names in the list GET /api/bookings answers for row b.
ListedNames(ledger, b) ==
    UNION {{r.list[i].service_name : i \in {j \in DOMAIN r.list : r.list[j].id = b.id}} :
              r \in getBookings(ledger, b.user_id)}

\* C15: createBooking stores the service name it read at its service lookup;
\* the name stored on a reservation never changes afterwards, whatever the
\* service is renamed to, and GET /api/bookings lists the stored name.
C15_ServiceNameIsSnapshot ==
    [][ /\ \A p \in Calls :
              (pc[p] = "idle" /\ pc'[p] = "cb_timeslot")
              => \E sv \in services : /\ sv.id = parseInt(frame'[p].serviceId)
                                       /\ sv.name = frame'[p].service_name
        /\ \A b \in bookings' \ bookings :
              \E p \in Calls : /\ pc[p] = "cb_insert"
                                /\ b.id = nextId
                                /\ b.service_name = frame[p].service_name
        /\ \A b \in bookings, c \in bookings' :
              b.id = c.id => c.service_name = b.service_name
        /\ \A b \in bookings' : ListedNames(bookings', b) = {b.service_name}
      ]_vars

\* A reservation keeps the old name of a service that has been renamed
\* since, and the owner's list was answered with the old name.
C15_Witness ==
    \E p \in Calls, b \in bookings :
        /\ pc[p] = "done"
        /\ frame[p].userId = b.user_id
        /\ response[p].list # <<>>
        /\ response[p].list[1].id = b.id
        /\ response[p].list[1].service_name = b.service_name
        /\ \E sv \in services : sv.id = b.service_id /\ sv.name # b.service_name

\* The booking argument of sendBookingConfirmation for reservation b.
bookingEvent(b) ==
    [serviceName |-> b.service_name, date |-> b.date, time |-> b.time,
     status |-> b.status]

\* C16: a successful createBooking and a successful cancelBooking each hand
\* one notification with the reservation's service name, date, time and
\* status to the email service; no other step hands over anything.
C16_NotificationPerSuccess ==
    [][ IF \E p \in Calls : pc[p] = "cb_insert" /\ Created(response'[p])
        THEN \E b \in bookings' \ bookings :
                outbox' = Append(outbox, bookingEvent(b))
        ELSE IF \E p \in Calls : pc[p] = "del_delete" /\ Cancelled(response'[p])
        THEN \E b \in bookings \ bookings' :
                \E st \in {b.status, "cancelled"} :
                    outbox' = Append(outbox, [bookingEvent(b) EXCEPT !.status = st])
        ELSE outbox' = outbox
      ]_vars

\* C17: every answer of GET /api/bookings to user u lists each reservation
\* of the ledger owned by u exactly once (reservations are told apart by
\* their id) and no reservation of another user, the later date first and,
\* within a date, the later time first.
C17_OwnBookingsNewestFirst ==
    \A u \in Users :
        /\ getBookings(bookings, u) # {}
        /\ \A r \in getBookings(bookings, u) :
              /\ r.status = 200
              /\ {r.list[i].id : i \in DOMAIN r.list} = {b.id : b \in {c \in bookings : c.user_id = u}}
              /\ Len(r.list) = Cardinality({c \in bookings : c.user_id = u})
              /\ \A i \in DOMAIN r.list : r.list[i].user_id = u
              /\ \A i \in DOMAIN r.list, j \in DOMAIN r.list :
                    i < j => \/ r.list[i].date > r.list[j].date
                             \/ /\ r.list[i].date = r.list[j].date
                                /\ r.list[i].time >= r.list[j].time

\* A user was answered a list with their own reservation while the ledger
\* also holds a reservation of another user.
C17_Witness ==
    \E p \in Calls :
        /\ pc[p] = "done"
        /\ Len(response[p].list) = 1
        /\ response[p].list[1].user_id = frame[p].userId
        /\ \E b \in bookings : b.user_id # frame[p].userId

\* C18: on a database that has been migrated, whatever bookings it holds
\* and whatever templates have been disabled since, runMigrations changes
\* no table, no service, no template or template flag, and no booking.
C18_MigrationsIdempotent ==
    Migrated => runMigrations(Database) = Database

\* A migrated database in use: a template has been disabled and a
\* reservation is stored.
C18_Witness ==
    /\ Migrated
    /\ \E r \in service_timeslots : ~r.is_available
    /\ bookings # {}

\* C19: once runMigrations has completed, the store rejects the insert of a
\* row with the service, date, time and status of a row that is stored.
C19_DuplicateInsertRejected ==
    Migrated => \A b \in bookings, u \in Users :
                    UniqueViolation([b EXCEPT !.id = nextId, !.user_id = u])

InvalidDate(r) ==
    /\ r.status = 400
    /\ r.text \in {"Date parameter is required (YYYY-MM-DD format)",
                   "Invalid date format. Use YYYY-MM-DD"}

\* The ledger with every reservation moved n days later.
Later(ledger, n) == {[b EXCEPT !.date = b.date + n] : b \in ledger}

\* C20: availableSlots answers "invalid date" for a missing or unparseable
\* date whatever the service id is (the store is not read: an unknown or
\* non-numeric id makes no difference); and for a past date it answers
\* what it answers for the same weekday one week after the last date, not
\* past, when the reservations are those of the past date.
C20_NoPastDateFilter ==
    /\ \A sid \in ServiceIdInputs \ {Absent}, d \in {Absent, Garbage} :
          InvalidDate(getTimeslots(sid, d))
    /\ \A sid \in ExistingIds, d \in Dates :
          (IsPast(DateText(d)) /\ ~IsPast(DateText(d + 7)))
          => availableSlots(bookings, IntText(sid), DateText(d))
               = availableSlots(Later(bookings, 7), IntText(sid), DateText(d + 7))

\* availableSlots was asked for a date that is past by now and holds a
\* reservation, and answered the remaining slots of the day.
C20_Witness ==
    \E p \in Calls, b \in bookings :
        /\ pc[p] = "done"
        /\ frame[p].userId = 0
        /\ frame[p].date = DateText(b.date)
        /\ IsPast(frame[p].date)
        /\ response[p].status = 200
        /\ response[p].slots # <<>>

MissingField(r) == r.status = 400 /\ r.text = "Missing required fields"
InvalidBookingDate(r) == r.status = 400 /\ r.text = "Invalid date format"

\* C21: createBooking reports the first failure that applies, in the order
\* missing field, service not found, invalid date, past date, slot not
\* offered, slot already booked (past date and slot not offered as the
\* handler itself decides them), and succeeds when none applies.
C21_FailureOrder ==
    \A u \in Users, sid \in ServiceIdInputs, d \in DateInputs, t \in TimeInputs :
        LET r == createBooking(u, sid, d, t).response IN
        IF Falsy(sid) \/ Falsy(d) \/ Falsy(t) THEN MissingField(r)
        ELSE IF parseIntIsNaN(sid) \/ parseInt(sid) \notin ExistingIds
        THEN ServiceNotFound(r)
        ELSE IF isNaN(d) THEN InvalidBookingDate(r)
        ELSE IF IsPast(d) THEN PastDate(r)
        ELSE IF timeslotResult(parseInt(sid), getDay(getTime(d)), PgTime(t)) = {}
        THEN SlotNotOffered(r)
        ELSE IF existingBooking(parseInt(sid), PgDate(d), PgTime(t)) # {}
        THEN AlreadyBooked(r)
        ELSE Created(r)

\* C22: the dayOfWeek a createBooking call and an availableSlots call have
\* computed for their date is the day of the week of that calendar date
\* (0 = Sunday), so both compute the same one for the same date.
C22_DayOfWeekIsCalendarDay ==
    \A p \in Calls :
        pc[p] \in {"cb_existing", "cb_insert", "ts_timeslots", "ts_bookings"}
        => frame[p].dayOfWeek = CalendarDay(frame[p].date.val)

\* C23: from every state, a createBooking call run with the pre-check and
\* the same call run with the insert alone answer the same outcome and
\* leave the same ledger and the same next reservation id, so that whole
\* sequences of calls stay in step.
C23_PreCheckIsRedundant ==
    \A u \in Users, sid \in ServiceIdInputs, d \in DateInputs, t \in TimeInputs :
        LET a == createBooking(u, sid, d, t)
            b == createBookingInsertOnly(u, sid, d, t)
        IN /\ a.response.status = b.response.status
           /\ a.response.text = b.response.text
           /\ a.bookings = b.bookings
           /\ a.nextId = b.nextId

\* C24: a sendEmail call never rejects; without SMTP settings it has only
\* logged, and after the transport's send it has logged the success or the
\* failure.
C24_SendEmailNeverThrows ==
    \A p \in Calls :
        /\ mail[p].pc # "rejected"
        /\ mail[p].pc = "resolved"
           => mail[p].log \in {"[Email] SMTP not configured. Would have sent email:",
                               "[Email] Sent successfully to",
                               "[Email] Failed to send:"}

\* One sendEmail call has resolved after a failed send, another without
\* SMTP settings.
C24_Witness ==
    \E p \in Calls, q \in Calls :
        /\ mail[p].pc = "resolved"
        /\ mail[p].log = "[Email] Failed to send:"
        /\ mail[q].pc = "resolved"
        /\ mail[q].log = "[Email] SMTP not configured. Would have sent email:"

\* The tables exist and the seed services and their templates are stored.
DatabaseMigrated ==
    /\ Tables \subseteq schema
    /\ \A i \in 1..NumServices : \E sv \in services : sv.name = ServiceNames[i]
    /\ \A sv \in services, d \in FirstDay..LastDay, h \in FirstHour..LastHour :
          \E r \in service_timeslots :
              r.service_id = sv.id /\ r.day_of_week = d /\ r.start_time = h * 3600

CreateStep(p) ==
    /\ pc'[p] # pc[p]
    /\ \/ pc[p] \in {"cb_timeslot", "cb_existing", "cb_insert"}
       \/ pc[p] = "idle" /\ frame'[p].bookingId = 0

\* C27: every step of a createBooking call leaves the services and the
\* templates as they are; the step that ends the call in success adds
\* exactly one reservation, the caller's, and every other step, the one
\* that ends the call in a failure included, leaves the ledger as it is.
C27_CreateBookingFrame ==
    [][\A p \in Calls : CreateStep(p) =>
          /\ services' = services
          /\ service_timeslots' = service_timeslots
          /\ IF pc'[p] = "done" /\ Created(response'[p])
             THEN \E b \in bookings' \ bookings :
                     /\ bookings' = bookings \cup {b}
                     /\ b.user_id = frame[p].userId
             ELSE bookings' = bookings]_vars

\* One createBooking call has been answered 201 and another has been
\* refused by the unique index; the ledger holds the one reservation.
C27_Witness ==
    \E p \in Calls, q \in Calls :
        /\ pc[p] = "done" /\ Created(response[p])
        /\ pc[q] = "done" /\ AlreadyBooked(response[q]) /\ response[q].logged = "23505"
        /\ Cardinality(bookings) = 1

\* C28: of two cancelBooking calls of the owner for one reservation id that
\* have both been answered, if one reports success the other reports
\* "not found", however their lookups and deletes were interleaved.
C28_OneCancelSucceeds ==
    \A p \in Calls, q \in Calls :
        (/\ p # q
         /\ pc[p] = "done" /\ pc[q] = "done"
         /\ frame[p].bookingId # 0
         /\ frame[q].bookingId = frame[p].bookingId
         /\ frame[q].userId = frame[p].userId
         /\ Cancelled(response[p]))
        => NotFound(response[q])

\* Where array a has elements that array b, a subsequence of it, lacks.
Removed(a, b) == {i \in DOMAIN a : ~\E j \in DOMAIN b : b[j] = a[i]}

\* C29: in the in-memory variant no two stored bookings share an id, and a
\* cancelBooking call that reports success has removed exactly one booking,
\* the caller's.
C29_MemoryIdsAndCancel ==
    /\ [](\A i \in DOMAIN memory.bookings, j \in DOMAIN memory.bookings :
             i # j => memory.bookings[i].id # memory.bookings[j].id)
    /\ [][(memory'.request.op = "cancel" /\ Cancelled(memory'.response))
            => /\ Len(memory'.bookings) = Len(memory.bookings) - 1
               /\ \A i \in Removed(memory.bookings, memory'.bookings) :
                     memory.bookings[i].userId = memory'.request.userId]_vars

\* C30: once the date has been changed and every timeslot request has
\* resolved, the list shown is the answer for the selected date and the
\* selected time is empty or a start time of the list.
C30_FormShowsSelectedDate ==
    (form.sent > 0 /\ form.requests = {} /\ ~Falsy(form.date)) =>
        /\ form.timeslots = servicesAPI_getTimeslots(BookingFormService.id, form.date).data
        /\ \/ Falsy(form.time)
           \/ \E i \in DOMAIN form.timeslots :
                 form.timeslots[i].start_time = form.time.val

====
